---- MODULE Spec2Model ----
(***************************************************************************)
(* Model of animDraw's trajectory-to-parameters core (animationLogic.js):  *)
(* the raw point buffer with its two cached results, and the pure stages   *)
(* of the pipeline (distance filter, keyframe builder, speed profiler,     *)
(* significant-change extractor, count normaliser, smoother, Bezier        *)
(* estimator, path serialiser).                                            *)
(*                                                                         *)
(* Numbers.  Timestamps and pipeline coordinates are integers.  A quotient *)
(* the code computes in floating point is kept exact as a fraction         *)
(* [n, d] with d > 0; a speed sqrt(d2)/dt is kept as the pair [d2, dt].    *)
(* Comparisons are decided exactly on these representations.               *)
(* Arrays are 1-based sequences; At(s, i) reads the JavaScript index i.    *)
(* Object identity (the !== of filterPoints) is the field id of a sample.  *)
(*                                                                         *)
(* The stand-alone page script-dual-mode.js, which keeps its own points    *)
(* and starts its preview animation from a timer and a frame callback, is  *)
(* modelled by the variable page and the specification SpecPreview.        *)
(***************************************************************************)
EXTENDS Integers, Sequences, FiniteSets

VARIABLES
    points,           \* let points = []            (raw buffer)
    bezierParams,     \* let bezierParams = null    (Null or Some(curve))
    motionKeyframes,  \* let motionKeyframes = null (Null or Some(list))
    threw,            \* the last exported call ended in an exception
    lastCall,         \* name of the last operation that acted
    arg,              \* input of the pure function under examination
    ret,              \* its returned value
    page              \* the page of script-dual-mode.js (see IdlePage)

vars == <<points, bezierParams, motionKeyframes, threw, lastCall, arg, ret, page>>

----
\* Bounds of the model.

\* longest raw buffer built through addPoint
MaxPoints == 6
\* longest sample list handed directly to a pure stage
MaxLen == 4
\* longest speed-selected keyframe list handed to the count normaliser
MaxExtracted == 41
\* longest original keyframe list handed to the count normaliser
MaxOriginal == 16
\* largest number of consecutive keyframes sharing one timestamp there
MaxGroup == 2
\* longest raw buffer the readers of the module are applied to
MaxRead == 4
\* longest run of evenly spaced samples put through the stages
MaxRun == 20
\* longest original keyframe list handed to the smoother
MaxSmooth == 4
MaxPreviews == 2      \* preview requests of script-dual-mode.js that schedule a start
MaxStroke == 3        \* points.length of script-dual-mode.js at most

----
\* Generic helpers.

Null == <<>>
Some(v) == <<v>>

At(s, i) == s[i + 1]
Last(s) == s[Len(s)]

Frac(n, d) == [n |-> n, d |-> d]
FLeq(a, b) == a.n * b.d <= b.n * a.d
FLess(a, b) == a.n * b.d < b.n * a.d
FEq(a, b) == a.n * b.d = b.n * a.d
FSub(a, b) == Frac(a.n * b.d - b.n * a.d, a.d * b.d)
FAdd(a, b) == Frac(a.n * b.d + b.n * a.d, a.d * b.d)
FHalf(a) == Frac(a.n, 2 * a.d)
FAbs(a) == Frac(IF a.n < 0 THEN -a.n ELSE a.n, a.d)
\* Math.min(1, q) alone.
ClampUpperOnly(q) == IF q.n > q.d THEN Frac(1, 1) ELSE q

\* Math.max(0, Math.min(1, q))
Clamp01(q) == IF q.n < 0 THEN Frac(0, 1) ELSE IF q.n > q.d THEN Frac(1, 1) ELSE q

Sample(id, time, x, y) == [id |-> id, time |-> time, x |-> x, y |-> y]

\* The page of script-dual-mode.js when it has loaded: position mode, nothing
\* drawn, no callback pending, no animation on the animated element.
\*   pointCount       points.length (the preview reads nothing else of points)
\*   bezierParams,    whether bezierParams and window.motionKeyframes hold
\*   motionKeyframes  a result of calculateBezier
\*   previews         how many times playAnimation went on to schedule a start
\*   timers           the setTimeout callbacks pending, oldest first
\*   frames           the requestAnimationFrame callbacks pending, oldest first
\*   animations       the animations created by animatedElement.animate(), in
\*                    order of creation, each "running" or "cancelled"
\*   animation        animatedElement.animation: 0 for null, or the position
\*                    in animations of the animation it refers to
\* A pending callback and the animation it creates carry the number of the
\* preview that scheduled it and, as a record of the past that no handler
\* reads, whether resetAll ran while the callback was pending.
IdlePage ==
    [isPathMode |-> FALSE, isDragging |-> FALSE, pointCount |-> 0,
     bezierParams |-> FALSE, motionKeyframes |-> FALSE,
     previews |-> 0, timers |-> <<>>, frames |-> <<>>,
     animations |-> <<>>, animation |-> 0]

\* The elements of s at the positions in keep, in order.
RECURSIVE PickFrom(_, _, _)
PickFrom(s, keep, i) ==
    IF i > Len(s) THEN <<>>
    ELSE (IF i \in keep THEN <<s[i]>> ELSE <<>>) \o PickFrom(s, keep, i + 1)

----
\* Distance filter.

\* a threshold of half the size
minDistanceHalved == 2 \div 2

minDistance == 2

\* FilterLoop comparing the squared distance with the threshold itself.
RECURSIVE FilterLoopUnsquared(_, _, _)
FilterLoopUnsquared(inputPoints, i, result) ==
    IF i >= Len(inputPoints) THEN result
    ELSE LET lastPoint == Last(result)
             dx == At(inputPoints, i).x - lastPoint.x
             dy == At(inputPoints, i).y - lastPoint.y
             squaredDistance == dx * dx + dy * dy
         IN  FilterLoopUnsquared(inputPoints, i + 1,
                                 IF squaredDistance >= minDistance
                                 THEN Append(result, At(inputPoints, i))
                                 ELSE result)

RECURSIVE FilterLoop(_, _, _)
FilterLoop(inputPoints, i, result) ==
    IF i >= Len(inputPoints) THEN result
    ELSE LET lastPoint == Last(result)
             dx == At(inputPoints, i).x - lastPoint.x
             dy == At(inputPoints, i).y - lastPoint.y
             squaredDistance == dx * dx + dy * dy
         IN  FilterLoop(inputPoints, i + 1,
                        IF squaredDistance >= minDistance * minDistance
                        THEN Append(result, At(inputPoints, i))
                        ELSE result)

\* filterPoints without the forced last point.
filterPointsNoForcedLast(inputPoints) ==
    IF Len(inputPoints) = 0 THEN <<>>
    ELSE FilterLoop(inputPoints, 1, <<At(inputPoints, 0)>>)

\* filterPoints whose loop starts at the third input point.
filterPointsSkippingSecond(inputPoints) ==
    IF Len(inputPoints) = 0 THEN <<>>
    ELSE LET result == FilterLoop(inputPoints, 2, <<At(inputPoints, 0)>>)
             lastOriginalPoint == Last(inputPoints)
         IN  IF Last(result).id # lastOriginalPoint.id
             THEN Append(result, lastOriginalPoint)
             ELSE result

\* filterPoints telling by position, not by identity, whether the last input
\* point is already the last of the result.
filterPointsComparingPosition(inputPoints) ==
    IF Len(inputPoints) = 0 THEN <<>>
    ELSE LET result == FilterLoop(inputPoints, 1, <<At(inputPoints, 0)>>)
             lastOriginalPoint == Last(inputPoints)
         IN  IF Last(result).x # lastOriginalPoint.x \/ Last(result).y # lastOriginalPoint.y
             THEN Append(result, lastOriginalPoint)
             ELSE result

filterPoints(inputPoints) ==
    IF Len(inputPoints) = 0 THEN <<>>
    ELSE LET result == FilterLoop(inputPoints, 1, <<At(inputPoints, 0)>>)
             lastOriginalPoint == Last(inputPoints)
         IN  IF Last(result).id # lastOriginalPoint.id
             THEN Append(result, lastOriginalPoint)
             ELSE result

----
\* Keyframe builder.

\* createKeyframes taking progress from time 0 instead of the first sample.
createKeyframesFromZero(filteredPoints) ==
    IF Len(filteredPoints) < 2 THEN [keyframes |-> <<>>, totalDuration |-> 0]
    ELSE LET totalDuration == Last(filteredPoints).time - At(filteredPoints, 0).time
         IN  [keyframes |->
                 [k \in 1..Len(filteredPoints) |->
                     [progress |-> IF totalDuration > 0
                                   THEN Frac(filteredPoints[k].time, totalDuration)
                                   ELSE Frac(0, 1),
                      point |-> filteredPoints[k]]],
              totalDuration |-> totalDuration]

\* createKeyframes dividing by totalDuration whatever it is.
createKeyframesUnguarded(filteredPoints) ==
    IF Len(filteredPoints) < 2 THEN [keyframes |-> <<>>, totalDuration |-> 0]
    ELSE LET totalDuration == Last(filteredPoints).time - At(filteredPoints, 0).time
         IN  [keyframes |->
                 [k \in 1..Len(filteredPoints) |->
                     [progress |-> Frac(filteredPoints[k].time - At(filteredPoints, 0).time,
                                        totalDuration),
                      point |-> filteredPoints[k]]],
              totalDuration |-> totalDuration]

createKeyframes(filteredPoints) ==
    IF Len(filteredPoints) < 2 THEN [keyframes |-> <<>>, totalDuration |-> 0]
    ELSE LET totalDuration == Last(filteredPoints).time - At(filteredPoints, 0).time
         IN  [keyframes |->
                 [k \in 1..Len(filteredPoints) |->
                     [progress |-> IF totalDuration > 0
                                   THEN Frac(filteredPoints[k].time - At(filteredPoints, 0).time,
                                             totalDuration)
                                   ELSE Frac(0, 1),
                      point |-> filteredPoints[k]]],
              totalDuration |-> totalDuration]

----
\* Speed profiler.  A speed distance / timeDiff is the pair [d2, dt]:
\* the square root of d2, divided by dt (dt > 0).

getDistanceSquared(point1, point2) ==
    (point1.x - point2.x) * (point1.x - point2.x)
        + (point1.y - point2.y) * (point1.y - point2.y)

Speed(d2, dt) == [d2 |-> d2, dt |-> dt]

\* SpeedsLoop skipping only the pairs of negative time delta.
RECURSIVE SpeedsLoopKeepingZero(_, _, _)
SpeedsLoopKeepingZero(keyframes, i, speeds) ==
    IF i >= Len(keyframes) THEN speeds
    ELSE LET timeDiff == At(keyframes, i).point.time - At(keyframes, i - 1).point.time
         IN  IF timeDiff < 0 THEN SpeedsLoopKeepingZero(keyframes, i + 1, speeds)
             ELSE SpeedsLoopKeepingZero(keyframes, i + 1,
                      Append(speeds,
                             [index |-> i,
                              speed |-> Speed(getDistanceSquared(At(keyframes, i).point,
                                                                 At(keyframes, i - 1).point),
                                              timeDiff),
                              progress |-> At(keyframes, i).progress]))

RECURSIVE SpeedsLoop(_, _, _)
SpeedsLoop(keyframes, i, speeds) ==
    IF i >= Len(keyframes) THEN speeds
    ELSE LET timeDiff == At(keyframes, i).point.time - At(keyframes, i - 1).point.time
         IN  IF timeDiff <= 0 THEN SpeedsLoop(keyframes, i + 1, speeds)
             ELSE SpeedsLoop(keyframes, i + 1,
                      Append(speeds,
                             [index |-> i,
                              speed |-> Speed(getDistanceSquared(At(keyframes, i).point,
                                                                 At(keyframes, i - 1).point),
                                              timeDiff),
                              progress |-> At(keyframes, i).progress]))

calculateSpeeds(keyframes) == SpeedsLoop(keyframes, 1, <<>>)

----
\* Significant-change extractor.

\* Math.abs(speed - lastSpeed) / Math.max(lastSpeed, 0.1) > 0.2, decided
\* exactly for speed = sqrt(A)/p and lastSpeed = sqrt(B)/q.
\*   lastSpeed >= 0.1:  speed > 6/5 lastSpeed  or  speed < 4/5 lastSpeed
\*   lastSpeed <  0.1:  speed > lastSpeed + 1/50  or  speed < lastSpeed - 1/50
SpeedChangeExceeds(speed, lastSpeed) ==
    LET A == speed.d2
        p == speed.dt
        B == lastSpeed.d2
        q == lastSpeed.dt
        X == 2500 * q * q * A - 2500 * p * p * B - p * p * q * q
        Y == 2500 * p * p * B - 2500 * q * q * A - p * p * q * q
    IN  IF 100 * B >= q * q
        THEN \/ 25 * A * q * q > 36 * B * p * p
             \/ 25 * A * q * q < 16 * B * p * p
        ELSE \/ X > 0 /\ (B = 0 \/ X * X > 10000 * p * p * p * p * q * q * B)
             \/ Y > 0 /\ (A = 0 \/ Y * Y > 10000 * p * p * q * q * q * q * A)

SamePoint(t, item) ==
    t.point.time = item.point.time /\ t.point.x = item.point.x /\ t.point.y = item.point.y

SameTime(t, item) == t.point.time = item.point.time

\* result.filter((item, index, self) => index === self.findIndex(same)): an
\* element stays when no earlier element is the same.
DedupeByPoint(s) ==
    PickFrom(s, {i \in 1..Len(s) : \A j \in 1..(i - 1) : ~SamePoint(s[j], s[i])}, 1)

DedupeByTime(s) ==
    PickFrom(s, {i \in 1..Len(s) : \A j \in 1..(i - 1) : ~SameTime(s[j], s[i])}, 1)

\* ExtractLoop pushing the keyframe at the change before the one preceding it.
RECURSIVE ExtractLoopSwapped(_, _, _, _, _)
ExtractLoopSwapped(keyframes, speeds, i, result, lastSpeed) ==
    IF i >= Len(speeds) THEN result
    ELSE IF SpeedChangeExceeds(At(speeds, i).speed, lastSpeed)
         THEN ExtractLoopSwapped(keyframes, speeds, i + 1,
                                 result \o <<At(keyframes, At(speeds, i).index),
                                             At(keyframes, At(speeds, i - 1).index)>>,
                                 At(speeds, i).speed)
         ELSE ExtractLoopSwapped(keyframes, speeds, i + 1, result, lastSpeed)

\* ExtractLoop that never updates lastSpeed.
RECURSIVE ExtractLoopFixedSpeed(_, _, _, _, _)
ExtractLoopFixedSpeed(keyframes, speeds, i, result, lastSpeed) ==
    IF i >= Len(speeds) THEN result
    ELSE IF SpeedChangeExceeds(At(speeds, i).speed, lastSpeed)
         THEN ExtractLoopFixedSpeed(keyframes, speeds, i + 1,
                                    result \o <<At(keyframes, At(speeds, i - 1).index),
                                                At(keyframes, At(speeds, i).index)>>,
                                    lastSpeed)
         ELSE ExtractLoopFixedSpeed(keyframes, speeds, i + 1, result, lastSpeed)

RECURSIVE ExtractLoop(_, _, _, _, _)
ExtractLoop(keyframes, speeds, i, result, lastSpeed) ==
    IF i >= Len(speeds) THEN result
    ELSE IF SpeedChangeExceeds(At(speeds, i).speed, lastSpeed)
         THEN ExtractLoop(keyframes, speeds, i + 1,
                          result \o <<At(keyframes, At(speeds, i - 1).index),
                                      At(keyframes, At(speeds, i).index)>>,
                          At(speeds, i).speed)
         ELSE ExtractLoop(keyframes, speeds, i + 1, result, lastSpeed)

\* result as extractKeySpeedPoints has it when its loop over the speed
\* records is through, before the last keyframe is seen to
speedChangeKeyframes(keyframes, speeds) ==
    IF Len(keyframes) = 0 THEN <<>>
    ELSE ExtractLoop(keyframes, speeds, 1, <<At(keyframes, 0)>>,
                     IF Len(speeds) > 0 THEN At(speeds, 0).speed ELSE Speed(0, 1))

extractKeySpeedPoints(keyframes, speeds) ==
    IF Len(keyframes) = 0 THEN <<>>
    ELSE LET lastSpeed == IF Len(speeds) > 0 THEN At(speeds, 0).speed ELSE Speed(0, 1)
             result == ExtractLoop(keyframes, speeds, 1, <<At(keyframes, 0)>>, lastSpeed)
             lastKeyframe == Last(keyframes)
             withLast ==
                 IF Len(result) > 0 /\ Last(result).point.time # lastKeyframe.point.time
                 THEN Append(result, lastKeyframe)
                 ELSE IF Len(result) = 0 /\ Len(keyframes) > 0
                      THEN <<At(keyframes, 0)>>
                               \o (IF Len(keyframes) > 1 THEN <<Last(keyframes)>> ELSE <<>>)
                      ELSE result
         IN  DedupeByPoint(withLast)

----
\* Count normaliser.

\* StrideLoop running up to the last index.
RECURSIVE StrideLoopToLast(_, _, _, _)
StrideLoopToLast(list, step, i, result) ==
    IF i < Len(list) - 1
    THEN StrideLoopToLast(list, step, i + step, Append(result, At(list, i)))
    ELSE result

\* StrideLoop advancing by two steps at a time.
RECURSIVE StrideLoopDoubled(_, _, _, _)
StrideLoopDoubled(list, step, i, result) ==
    IF i < Len(list) - step
    THEN StrideLoopDoubled(list, step, i + 2 * step, Append(result, At(list, i)))
    ELSE result

\* for (let i = step; i < list.length - step; i += step) result.push(list[i])
RECURSIVE StrideLoop(_, _, _, _)
StrideLoop(list, step, i, result) ==
    IF i < Len(list) - step
    THEN StrideLoop(list, step, i + step, Append(result, At(list, i)))
    ELSE result

\* normalizeKeyframeCount whose too-sparse branch opens with the first
\* speed-selected keyframe (the other branch's opening line).
normalizeKeyframeCountMixed(speedKeyframes, originalKeyframes) ==
    IF Len(speedKeyframes) < 5 /\ Len(originalKeyframes) > 10
    THEN LET step == Len(originalKeyframes) \div 8
             first == IF Len(speedKeyframes) > 0 THEN <<At(speedKeyframes, 0)>>
                      ELSE <<At(originalKeyframes, 0)>>
             sampled == IF step > 0 THEN StrideLoop(originalKeyframes, step, step, first)
                        ELSE first
             result == Append(sampled, Last(originalKeyframes))
         IN  DedupeByTime(result)
    ELSE IF Len(speedKeyframes) > 20
    THEN LET step == Len(speedKeyframes) \div 20
             first == <<At(speedKeyframes, 0)>>
             sampled == IF step > 0 THEN StrideLoop(speedKeyframes, step, step, first)
                        ELSE first
             result == Append(sampled, Last(speedKeyframes))
         IN  DedupeByTime(result)
    ELSE speedKeyframes

\* normalizeKeyframeCount rebuilding a too-sparse selection only from more
\* than 20 original keyframes on.
normalizeKeyframeCountAbove20(speedKeyframes, originalKeyframes) ==
    IF Len(speedKeyframes) < 5 /\ Len(originalKeyframes) > 20
    THEN LET step == Len(originalKeyframes) \div 8
             first == <<At(originalKeyframes, 0)>>
             sampled == IF step > 0 THEN StrideLoop(originalKeyframes, step, step, first)
                        ELSE first
             result == Append(sampled, Last(originalKeyframes))
         IN  DedupeByTime(result)
    ELSE IF Len(speedKeyframes) > 20
    THEN LET step == Len(speedKeyframes) \div 20
             first == <<At(speedKeyframes, 0)>>
             sampled == IF step > 0 THEN StrideLoop(speedKeyframes, step, step, first)
                        ELSE first
             result == Append(sampled, Last(speedKeyframes))
         IN  DedupeByTime(result)
    ELSE speedKeyframes

normalizeKeyframeCount(speedKeyframes, originalKeyframes) ==
    IF Len(speedKeyframes) < 5 /\ Len(originalKeyframes) > 10
    THEN LET step == Len(originalKeyframes) \div 8
             first == <<At(originalKeyframes, 0)>>
             sampled == IF step > 0 THEN StrideLoop(originalKeyframes, step, step, first)
                        ELSE first
             result == Append(sampled, Last(originalKeyframes))
         IN  DedupeByTime(result)
    ELSE IF Len(speedKeyframes) > 20
    THEN LET step == Len(speedKeyframes) \div 20
             first == <<At(speedKeyframes, 0)>>
             sampled == IF step > 0 THEN StrideLoop(speedKeyframes, step, step, first)
                        ELSE first
             result == Append(sampled, Last(speedKeyframes))
         IN  DedupeByTime(result)
    ELSE speedKeyframes

----
\* Smoother.

\* ClosestLoop letting a later keyframe at the same distance win.
RECURSIVE ClosestLoopLastOnTies(_, _, _, _, _)
ClosestLoopLastOnTies(keyframes, targetProgress, i, closestIndex, minDiff) ==
    IF i >= Len(keyframes) THEN closestIndex
    ELSE LET diff == FAbs(FSub(At(keyframes, i).progress, targetProgress))
         IN  IF FLeq(diff, minDiff)
             THEN ClosestLoopLastOnTies(keyframes, targetProgress, i + 1, i, diff)
             ELSE ClosestLoopLastOnTies(keyframes, targetProgress, i + 1, closestIndex, minDiff)

RECURSIVE ClosestLoop(_, _, _, _, _)
ClosestLoop(keyframes, targetProgress, i, closestIndex, minDiff) ==
    IF i >= Len(keyframes) THEN closestIndex
    ELSE LET diff == FAbs(FSub(At(keyframes, i).progress, targetProgress))
         IN  IF FLess(diff, minDiff)
             THEN ClosestLoop(keyframes, targetProgress, i + 1, i, diff)
             ELSE ClosestLoop(keyframes, targetProgress, i + 1, closestIndex, minDiff)

findClosestKeyframeByProgress(keyframes, targetProgress) ==
    IF Len(keyframes) = 0 THEN Null
    ELSE Some(At(keyframes, ClosestLoop(keyframes, targetProgress, 0, 0, Frac(1, 1))))

RECURSIVE SmoothLoop(_, _, _, _)
SmoothLoop(keyframes, originalKeyframes, i, result) ==
    IF i >= Len(keyframes) - 1 THEN result
    ELSE LET current == At(keyframes, i)
             next == At(keyframes, i + 1)
             pushed == Append(result, current)
             middleProgress == FHalf(FAdd(current.progress, next.progress))
             closestKeyframe == findClosestKeyframeByProgress(originalKeyframes, middleProgress)
         IN  SmoothLoop(keyframes, originalKeyframes, i + 1,
                 IF /\ FLess(Frac(1, 10), FSub(next.progress, current.progress))
                    /\ closestKeyframe # Null
                    /\ Last(pushed).point.time # closestKeyframe[1].point.time
                 THEN Append(pushed, closestKeyframe[1])
                 ELSE pushed)

smoothKeyframes(keyframes, originalKeyframes) ==
    IF Len(keyframes) < 2 THEN keyframes
    ELSE Append(SmoothLoop(keyframes, originalKeyframes, 0, <<>>), Last(keyframes))

----
\* processKeyframes.  A call either returns a value or throws.

Returned(v) == [threw |-> FALSE, value |-> v]
Thrown == [threw |-> TRUE, value |-> <<>>]

\* The identifiers in scope in the body of processKeyframes: its two
\* parameters and its two locals.  The module declares no originalKeyframes,
\* and reading an identifier that is not in scope throws a ReferenceError.
processKeyframesScope == {"keyframes", "pointCount", "speeds", "speedKeyframes"}

processKeyframes(keyframes, pointCount) ==
    IF Len(keyframes) = 0 THEN Returned(<<>>)
    ELSE LET speeds == calculateSpeeds(keyframes)
             extracted == extractKeySpeedPoints(keyframes, speeds)
             speedKeyframes == normalizeKeyframeCount(extracted, keyframes)
         IN  IF pointCount > 5 /\ Len(speedKeyframes) >= 3
             THEN IF "originalKeyframes" \in processKeyframesScope
                  THEN Returned(smoothKeyframes(speedKeyframes, keyframes))
                  ELSE Thrown
             ELSE Returned(speedKeyframes)

----
\* Bezier estimator.

DefaultBezier ==
    [x1 |-> Frac(1, 4), y1 |-> Frac(1, 10), x2 |-> Frac(1, 4), y2 |-> Frac(1, 1)]

\* calculateBezierParameters taking twice the one-third index for the
\* two-thirds index.
calculateBezierParametersDoubledIndex(filteredPoints, totalDuration) ==
    IF Len(filteredPoints) < 2 \/ totalDuration <= 0 THEN DefaultBezier
    ELSE LET oneThirdIndex == Len(filteredPoints) \div 3
             twoThirdsIndex == (Len(filteredPoints) \div 3) * 2
             firstControlDuration ==
                 Frac(At(filteredPoints, oneThirdIndex).time - At(filteredPoints, 0).time,
                      totalDuration)
             secondControlDuration ==
                 Frac(At(filteredPoints, twoThirdsIndex).time - At(filteredPoints, 0).time,
                      totalDuration)
         IN  [x1 |-> Clamp01(firstControlDuration),
              y1 |-> Clamp01(Frac(oneThirdIndex, Len(filteredPoints) - 1)),
              x2 |-> Clamp01(secondControlDuration),
              y2 |-> Clamp01(Frac(twoThirdsIndex, Len(filteredPoints) - 1))]

calculateBezierParameters(filteredPoints, totalDuration) ==
    IF Len(filteredPoints) < 2 \/ totalDuration <= 0 THEN DefaultBezier
    ELSE LET oneThirdIndex == Len(filteredPoints) \div 3
             twoThirdsIndex == (Len(filteredPoints) * 2) \div 3
             firstControlDuration ==
                 Frac(At(filteredPoints, oneThirdIndex).time - At(filteredPoints, 0).time,
                      totalDuration)
             secondControlDuration ==
                 Frac(At(filteredPoints, twoThirdsIndex).time - At(filteredPoints, 0).time,
                      totalDuration)
         IN  [x1 |-> Clamp01(firstControlDuration),
              y1 |-> Clamp01(Frac(oneThirdIndex, Len(filteredPoints) - 1)),
              x2 |-> Clamp01(secondControlDuration),
              y2 |-> Clamp01(Frac(twoThirdsIndex, Len(filteredPoints) - 1))]

----
\* Path serialiser.  Here sample coordinates are in thousandths of a pixel,
\* so that toFixed(2) has something to round; a command of the emitted path
\* carries the printed numbers in hundredths.

\* Number.prototype.toFixed(2): the nearest hundredth, the larger magnitude
\* on a tie, the sign kept.
toFixed2(v) == IF v < 0 THEN -((-v + 5) \div 10) ELSE (v + 5) \div 10

RECURSIVE PathLoop(_, _, _, _, _)
PathLoop(animationPoints, firstX, firstY, i, pathData) ==
    IF i >= Len(animationPoints) THEN pathData
    ELSE LET relX == At(animationPoints, i).x - firstX
             relY == At(animationPoints, i).y - firstY
         IN  PathLoop(animationPoints, firstX, firstY, i + 1,
                      Append(pathData,
                             [cmd |-> "L", x |-> toFixed2(relX), y |-> toFixed2(relY)]))

\* generateSVGPath always relative to the first sample.
generateSVGPathIgnoringOverride(animationPoints, firstPointOverride) ==
    IF Len(animationPoints) < 2 THEN <<[cmd |-> "M", x |-> 0, y |-> 0]>>
    ELSE PathLoop(animationPoints, At(animationPoints, 0).x, At(animationPoints, 0).y, 1,
                  <<[cmd |-> "M", x |-> 0, y |-> 0]>>)

generateSVGPath(animationPoints, firstPointOverride) ==
    IF Len(animationPoints) < 2 THEN <<[cmd |-> "M", x |-> 0, y |-> 0]>>
    ELSE LET firstX == IF firstPointOverride # Null THEN firstPointOverride[1].x
                       ELSE At(animationPoints, 0).x
             firstY == IF firstPointOverride # Null THEN firstPointOverride[1].y
                       ELSE At(animationPoints, 0).y
         IN  PathLoop(animationPoints, firstX, firstY, 1,
                      <<[cmd |-> "M", x |-> 0, y |-> 0]>>)

----
\* The module's state and its exported operations.

\* What the capture layer can append after the last raw point (from the
\* origin for the first one): elapsed time and displacement.  A pointer that
\* moves 2 px, one that rests, one that moves within the same timestamp, and
\* a faster diagonal move.
Moves ==
    { [dt |-> 1, dx |-> 2, dy |-> 0],
      [dt |-> 1, dx |-> 0, dy |-> 0],
      [dt |-> 0, dx |-> 0, dy |-> 2],
      [dt |-> 1, dx |-> 3, dy |-> 1] }

NextPoint(m) ==
    IF Len(points) = 0 THEN Sample(1, m.dt, m.dx, m.dy)
    ELSE Sample(Len(points) + 1, Last(points).time + m.dt,
                Last(points).x + m.dx, Last(points).y + m.dy)

Init ==
    /\ page = IdlePage
    /\ points = <<>>
    /\ bezierParams = Null
    /\ motionKeyframes = Null
    /\ threw = FALSE
    /\ lastCall = "init"
    /\ arg = <<>>
    /\ ret = <<>>

addPoint ==
    /\ UNCHANGED page
    /\ Len(points) < MaxPoints
    /\ \E m \in Moves : points' = Append(points, NextPoint(m))
    /\ threw' = FALSE
    /\ lastCall' = "addPoint"
    /\ ret' = <<>>
    /\ UNCHANGED <<bezierParams, motionKeyframes, arg>>

\* resetPoints leaving the cached keyframes in place.
resetPointsKeepingKeyframes ==
    /\ UNCHANGED page
    /\ points' = <<>>
    /\ bezierParams' = Null
    /\ threw' = FALSE
    /\ lastCall' = "resetPoints"
    /\ ret' = <<>>
    /\ UNCHANGED <<motionKeyframes, arg>>

resetPoints ==
    /\ UNCHANGED page
    /\ points' = <<>>
    /\ bezierParams' = Null
    /\ motionKeyframes' = Null
    /\ threw' = FALSE
    /\ lastCall' = "resetPoints"
    /\ ret' = <<>>
    /\ UNCHANGED arg

\* calculateAnimationData giving up below 2 raw points instead of 3.
calculateAnimationDataMinTwo ==
    /\ UNCHANGED page
    /\ lastCall' = "calculateAnimationData"
    /\ ret' = <<>>
    /\ UNCHANGED <<points, arg>>
    /\ IF Len(points) < 2
       THEN /\ motionKeyframes' = Null
            /\ bezierParams' = Null
            /\ threw' = FALSE
       ELSE LET currentFilteredPoints == filterPoints(points)
                created == createKeyframes(currentFilteredPoints)
                processed == processKeyframes(created.keyframes, Len(currentFilteredPoints))
            IN  IF Len(currentFilteredPoints) < 2
                THEN /\ motionKeyframes' = Null
                     /\ bezierParams' = Null
                     /\ threw' = FALSE
                ELSE IF processed.threw
                THEN /\ threw' = TRUE
                     /\ UNCHANGED <<motionKeyframes, bezierParams>>
                ELSE /\ motionKeyframes' = Some(processed.value)
                     /\ bezierParams' =
                            Some(calculateBezierParameters(currentFilteredPoints,
                                                           created.totalDuration))
                     /\ threw' = FALSE

calculateAnimationData ==
    /\ UNCHANGED page
    /\ lastCall' = "calculateAnimationData"
    /\ ret' = <<>>
    /\ UNCHANGED <<points, arg>>
    /\ IF Len(points) < 3
       THEN /\ motionKeyframes' = Null
            /\ bezierParams' = Null
            /\ threw' = FALSE
       ELSE LET currentFilteredPoints == filterPoints(points)
                created == createKeyframes(currentFilteredPoints)
                processed == processKeyframes(created.keyframes, Len(currentFilteredPoints))
            IN  IF Len(currentFilteredPoints) < 2
                THEN /\ motionKeyframes' = Null
                     /\ bezierParams' = Null
                     /\ threw' = FALSE
                ELSE IF processed.threw
                THEN /\ threw' = TRUE
                     /\ UNCHANGED <<motionKeyframes, bezierParams>>
                ELSE /\ motionKeyframes' = Some(processed.value)
                     /\ bezierParams' =
                            Some(calculateBezierParameters(currentFilteredPoints,
                                                           created.totalDuration))
                     /\ threw' = FALSE

\* getFilteredPoints handing out the raw buffer as it is.
getFilteredPointsUnfiltered ==
    /\ UNCHANGED page
    /\ Len(points) <= MaxRead
    /\ lastCall' = "getFilteredPoints"
    /\ ret' = points
    /\ threw' = FALSE
    /\ UNCHANGED <<points, bezierParams, motionKeyframes, arg>>

getFilteredPoints ==
    /\ UNCHANGED page
    /\ Len(points) <= MaxRead
    /\ lastCall' = "getFilteredPoints"
    /\ ret' = filterPoints(points)
    /\ threw' = FALSE
    /\ UNCHANGED <<points, bezierParams, motionKeyframes, arg>>

\* The consumers of the cached results, applied (like getFilteredPoints) to
\* buffers of up to MaxRead points.  Each reads the module through its
\* getters and leaves it alone; what is kept of its output is the timing it
\* settled on: the keyframe list it took its stops from, or the control
\* points of the cubic-bezier easing, or neither.
NoTiming(outcome) == [timing |-> outcome, keyframes |-> <<>>, easing |-> Null]

KeyframeTiming(motionKeyframesData) ==
    [timing |-> "keyframes", keyframes |-> motionKeyframesData, easing |-> Null]

BezierTiming(params) == [timing |-> "bezier", keyframes |-> <<>>, easing |-> Some(params)]

\* the easing playAnimation falls back on when no parameters are cached
EaseInOut ==
    [x1 |-> Frac(42, 100), y1 |-> Frac(0, 1), x2 |-> Frac(58, 100), y2 |-> Frac(1, 1)]

\* generateDynamicCSS taking the keyframe branch from 2 cached keyframes on.
CssTimingFromTwo(isPathMode) ==
    IF ~isPathMode THEN NoTiming("position")
    ELSE IF Len(points) < 3 THEN NoTiming("noPath")
    ELSE IF Len(filterPoints(points)) < 2 THEN NoTiming("tooFewFiltered")
    ELSE IF motionKeyframes # Null /\ Len(motionKeyframes[1]) >= 2
    THEN KeyframeTiming(motionKeyframes[1])
    ELSE IF bezierParams # Null THEN BezierTiming(bezierParams[1])
    ELSE NoTiming("noParameters")

CssTiming(isPathMode) ==
    IF ~isPathMode THEN NoTiming("position")
    ELSE IF Len(points) < 3 THEN NoTiming("noPath")
    ELSE IF Len(filterPoints(points)) < 2 THEN NoTiming("tooFewFiltered")
    ELSE IF motionKeyframes # Null /\ Len(motionKeyframes[1]) >= 3
    THEN KeyframeTiming(motionKeyframes[1])
    ELSE IF bezierParams # Null THEN BezierTiming(bezierParams[1])
    ELSE NoTiming("noParameters")

generateDynamicCSS ==
    /\ UNCHANGED page
    /\ Len(points) <= MaxRead
    /\ lastCall' = "generateDynamicCSS"
    /\ \E isPathMode \in BOOLEAN : ret' = CssTiming(isPathMode)
    /\ threw' = FALSE
    /\ UNCHANGED <<points, bezierParams, motionKeyframes, arg>>

\* The animation playAnimation starts.  The continuation it queues with
\* Promise.resolve().then runs before any other handler and works on the
\* values read before it was queued, so the call and its continuation are one
\* step.
PlayTiming(isPathMode) ==
    IF ~isPathMode \/ Len(points) < 3 THEN NoTiming("noPath")
    ELSE IF Len(filterPoints(points)) < 2 THEN NoTiming("tooFewFiltered")
    ELSE IF motionKeyframes # Null /\ Len(motionKeyframes[1]) >= 3
    THEN KeyframeTiming(motionKeyframes[1])
    ELSE BezierTiming(IF bezierParams # Null THEN bezierParams[1] ELSE EaseInOut)

playAnimation ==
    /\ UNCHANGED page
    /\ Len(points) <= MaxRead
    /\ lastCall' = "playAnimation"
    /\ \E isPathMode \in BOOLEAN : ret' = PlayTiming(isPathMode)
    /\ threw' = FALSE
    /\ UNCHANGED <<points, bezierParams, motionKeyframes, arg>>

Next ==
    \/ addPoint
    \/ resetPoints
    \/ calculateAnimationData
    \/ getFilteredPoints
    \/ generateDynamicCSS
    \/ playAnimation

Spec == Init /\ [][Next]_vars

----
\* The pure stages applied to sample lists.  A list is drawn sample by sample
\* (timestamps rising, repeating and falling; positions closer and farther
\* than minDistance), and one stage is then applied to it.

StageTimeSteps == {-1, 0, 1, 2}
StagePositions == {<<0, 0>>, <<1, 1>>, <<3, 0>>}
StageDurations == {-1, 0, 1, 2}

InitStage ==
    /\ page = IdlePage
    /\ points = <<>>
    /\ bezierParams = Null
    /\ motionKeyframes = Null
    /\ threw = FALSE
    /\ lastCall = "init"
    /\ arg = <<>>
    /\ ret = <<>>

\* One more sample for the list: the first at time MaxLen (so that no
\* timestamp is negative), a later one a step after the previous one.
DrawSample ==
    /\ UNCHANGED page
    /\ lastCall = "init"
    /\ Len(arg) < MaxLen
    /\ \E step \in StageTimeSteps, pos \in StagePositions :
           /\ Len(arg) = 0 => step = 0
           /\ arg' = Append(arg, Sample(Len(arg) + 1,
                                        IF Len(arg) = 0 THEN MaxLen
                                        ELSE Last(arg).time + step,
                                        pos[1], pos[2]))
    /\ UNCHANGED <<points, bezierParams, motionKeyframes, threw, lastCall, ret>>

CallFilterPoints ==
    /\ UNCHANGED page
    /\ lastCall = "init"
    /\ lastCall' = "filterPoints"
    /\ ret' = filterPoints(arg)
    /\ UNCHANGED <<points, bezierParams, motionKeyframes, threw, arg>>

CallCreateKeyframes ==
    /\ UNCHANGED page
    /\ lastCall = "init"
    /\ lastCall' = "createKeyframes"
    /\ ret' = createKeyframes(arg)
    /\ UNCHANGED <<points, bezierParams, motionKeyframes, threw, arg>>

CallCalculateSpeeds ==
    /\ UNCHANGED page
    /\ lastCall = "init"
    /\ lastCall' = "calculateSpeeds"
    /\ ret' = calculateSpeeds(createKeyframes(arg).keyframes)
    /\ UNCHANGED <<points, bezierParams, motionKeyframes, threw, arg>>

CallExtractKeySpeedPoints ==
    /\ UNCHANGED page
    /\ lastCall = "init"
    /\ lastCall' = "extractKeySpeedPoints"
    /\ LET keyframes == createKeyframes(arg).keyframes
       IN  ret' = extractKeySpeedPoints(keyframes, calculateSpeeds(keyframes))
    /\ UNCHANGED <<points, bezierParams, motionKeyframes, threw, arg>>

\* filterPoints applied to its own output
CallFilterPointsTwice ==
    /\ UNCHANGED page
    /\ lastCall = "init"
    /\ lastCall' = "filterPointsTwice"
    /\ ret' = [once |-> filterPoints(arg), twice |-> filterPoints(filterPoints(arg))]
    /\ UNCHANGED <<points, bezierParams, motionKeyframes, threw, arg>>

\* extractKeySpeedPoints stopped after its loop
CallExtractLoop ==
    /\ UNCHANGED page
    /\ lastCall = "init"
    /\ lastCall' = "extractLoop"
    /\ LET keyframes == createKeyframes(arg).keyframes
       IN  ret' = speedChangeKeyframes(keyframes, calculateSpeeds(keyframes))
    /\ UNCHANGED <<points, bezierParams, motionKeyframes, threw, arg>>

CallCalculateBezierParameters ==
    /\ UNCHANGED page
    /\ lastCall = "init"
    /\ lastCall' = "calculateBezierParameters"
    /\ \E totalDuration \in StageDurations :
           ret' = [totalDuration |-> totalDuration,
                   value |-> calculateBezierParameters(arg, totalDuration)]
    /\ UNCHANGED <<points, bezierParams, motionKeyframes, threw, arg>>

NextStage ==
    \/ DrawSample
    \/ CallFilterPoints
    \/ CallCreateKeyframes
    \/ CallCalculateSpeeds
    \/ CallFilterPointsTwice
    \/ CallExtractKeySpeedPoints
    \/ CallExtractLoop
    \/ CallCalculateBezierParameters

SpecStage == InitStage /\ [][NextStage]_vars

----
\* The count normaliser applied to a pair of keyframe lists.  Each list is
\* the keyframe builder's output for n samples 2 px apart of which every g
\* consecutive ones share a timestamp; the two lists lie on different rows,
\* so a keyframe of one is never a keyframe of the other.

GenSamples(n, g, y) == [k \in 1..n |-> Sample(k, (k - 1) \div g, 2 * (k - 1), y)]

GenKeyframes(n, g, y) == createKeyframes(GenSamples(n, g, y)).keyframes

InitNormalize ==
    /\ page = IdlePage
    /\ points = <<>>
    /\ bezierParams = Null
    /\ motionKeyframes = Null
    /\ threw = FALSE
    /\ lastCall = "init"
    /\ \E ns \in 0..MaxExtracted, no \in 0..MaxOriginal, gs \in 1..MaxGroup, go \in 1..MaxGroup :
           arg = [speedKeyframes |-> GenKeyframes(ns, gs, 1),
                  originalKeyframes |-> GenKeyframes(no, go, 0)]
    /\ ret = <<>>

CallNormalizeKeyframeCount ==
    /\ UNCHANGED page
    /\ lastCall = "init"
    /\ lastCall' = "normalizeKeyframeCount"
    /\ ret' = normalizeKeyframeCount(arg.speedKeyframes, arg.originalKeyframes)
    /\ UNCHANGED <<points, bezierParams, motionKeyframes, threw, arg>>

SpecNormalize == InitNormalize /\ [][CallNormalizeKeyframeCount]_vars

----
\* The path serialiser applied to a sample list and an origin.

PathPositions == {<<0, 0>>, <<1004, -1005>>, <<2345, 19>>, <<-4996, 7>>}

PathSamples ==
    UNION { { [k \in 1..n |-> Sample(k, k, f[k][1], f[k][2])] :
                f \in [1..n -> PathPositions] } : n \in 0..MaxLen }

InitPath ==
    /\ page = IdlePage
    /\ points = <<>>
    /\ bezierParams = Null
    /\ motionKeyframes = Null
    /\ threw = FALSE
    /\ lastCall = "init"
    /\ \E s \in PathSamples, o \in {Null} \cup {Some(Sample(0, 0, q[1], q[2])) : q \in PathPositions} :
           arg = [animationPoints |-> s, firstPointOverride |-> o]
    /\ ret = <<>>

CallGenerateSVGPath ==
    /\ UNCHANGED page
    /\ lastCall = "init"
    /\ lastCall' = "generateSVGPath"
    /\ ret' = generateSVGPath(arg.animationPoints, arg.firstPointOverride)
    /\ UNCHANGED <<points, bezierParams, motionKeyframes, threw, arg>>

SpecPath == InitPath /\ [][CallGenerateSVGPath]_vars

----
\* The distance filter and the keyframe builder applied one after the other,
\* as calculateAnimationData chains them, to a stroke of 3 samples 100 time
\* units apart whose second sample lies within a few pixels of the first.

NearOffsets == 0..7

NearStart(x, y) == <<Sample(1, 0, 0, 0), Sample(2, 100, x, y), Sample(3, 200, 50, 50)>>

InitNearStart ==
    /\ page = IdlePage
    /\ points = <<>>
    /\ bezierParams = Null
    /\ motionKeyframes = Null
    /\ threw = FALSE
    /\ lastCall = "init"
    /\ \E x \in NearOffsets, y \in NearOffsets : arg = NearStart(x, y)
    /\ ret = <<>>

FilterAndCreateKeyframes ==
    /\ UNCHANGED page
    /\ lastCall = "init"
    /\ lastCall' = "createKeyframes"
    /\ LET currentFilteredPoints == filterPoints(arg)
       IN  ret' = [filtered |-> currentFilteredPoints,
                   keyframes |-> createKeyframes(currentFilteredPoints).keyframes]
    /\ UNCHANGED <<points, bezierParams, motionKeyframes, threw, arg>>

SpecNearStart == InitNearStart /\ [][FilterAndCreateKeyframes]_vars

----
\* The stages up to the count normaliser applied one after the other, as
\* calculateAnimationData and processKeyframes chain them, to a run of evenly
\* spaced samples at equal time steps.

RunTimeSteps == {1, 16}
RunSpacings == {2, 3, 5}

ConstantVelocity(n, dt, spacing) ==
    [k \in 1..n |-> Sample(k, (k - 1) * dt, (k - 1) * spacing, 0)]

InitRun ==
    /\ page = IdlePage
    /\ points = <<>>
    /\ bezierParams = Null
    /\ motionKeyframes = Null
    /\ threw = FALSE
    /\ lastCall = "init"
    /\ \E n \in 2..MaxRun, dt \in RunTimeSteps, spacing \in RunSpacings :
           arg = ConstantVelocity(n, dt, spacing)
    /\ ret = <<>>

RunStages ==
    /\ UNCHANGED page
    /\ lastCall = "init"
    /\ lastCall' = "runStages"
    /\ LET currentFilteredPoints == filterPoints(arg)
           keyframes == createKeyframes(currentFilteredPoints).keyframes
           speeds == calculateSpeeds(keyframes)
           speedKeyframes == extractKeySpeedPoints(keyframes, speeds)
       IN  ret' = [filtered |-> currentFilteredPoints,
                   keyframes |-> keyframes,
                   speedKeyframes |-> speedKeyframes,
                   normalized |-> normalizeKeyframeCount(speedKeyframes, keyframes)]
    /\ UNCHANGED <<points, bezierParams, motionKeyframes, threw, arg>>

SpecRun == InitRun /\ [][RunStages]_vars

----
\* The smoother applied to an original keyframe list and a selection of its
\* keyframes.  The original list is the keyframe builder's output for samples
\* whose timestamps rise by 0, 1 or 5, so that progress gaps below and above
\* a tenth and keyframes of equal timestamp occur.

SmoothSteps == {0, 1, 5}

RECURSIVE SumTo(_, _)
SumTo(steps, k) == IF k = 0 THEN 0 ELSE SumTo(steps, k - 1) + steps[k]

SmoothSamples(n, steps) == [k \in 1..n |-> Sample(k, SumTo(steps, k - 1), 2 * (k - 1), 0)]

InitSmooth ==
    /\ page = IdlePage
    /\ points = <<>>
    /\ bezierParams = Null
    /\ motionKeyframes = Null
    /\ threw = FALSE
    /\ lastCall = "init"
    /\ \E n \in 0..MaxSmooth :
           \E steps \in [1..(n - 1) -> SmoothSteps], keep \in SUBSET (1..n) :
               LET originalKeyframes == createKeyframes(SmoothSamples(n, steps)).keyframes
               IN  arg = [keyframes |->
                              PickFrom(originalKeyframes,
                                       keep \cap (1..Len(originalKeyframes)), 1),
                          originalKeyframes |-> originalKeyframes]
    /\ ret = <<>>

CallSmoothKeyframes ==
    /\ UNCHANGED page
    /\ lastCall = "init"
    /\ lastCall' = "smoothKeyframes"
    /\ ret' = smoothKeyframes(arg.keyframes, arg.originalKeyframes)
    /\ UNCHANGED <<points, bezierParams, motionKeyframes, threw, arg>>

SpecSmooth == InitSmooth /\ [][CallSmoothKeyframes]_vars

----
\* Properties.

NonDecreasingTimes(s) == \A i \in 1..(Len(s) - 1) : s[i].time <= s[i + 1].time

\* a occurs in b as an order-preserving selection of b's elements
RECURSIVE SubseqFrom(_, _, _, _)
SubseqFrom(a, i, b, j) ==
    IF i > Len(a) THEN TRUE
    ELSE IF j > Len(b) THEN FALSE
    ELSE IF a[i] = b[j] THEN SubseqFrom(a, i + 1, b, j + 1)
    ELSE SubseqFrom(a, i, b, j + 1)

IsSubseqOf(a, b) == SubseqFrom(a, 1, b, 1)

InUnit(q) == FLeq(Frac(0, 1), q) /\ FLeq(q, Frac(1, 1))

\* The results the pipeline is documented to publish for a raw buffer: the
\* smoother runs over the normalised list and the keyframe builder's list when
\* more than 5 points are left and at least 3 keyframes were selected.
ExpectedAnimationData(buffer) ==
    IF Len(buffer) < 3 \/ Len(filterPoints(buffer)) < 2
    THEN [keyframes |-> Null, bezier |-> Null]
    ELSE LET filtered == filterPoints(buffer)
             created == createKeyframes(filtered)
             extracted == extractKeySpeedPoints(created.keyframes,
                                                calculateSpeeds(created.keyframes))
             normalized == normalizeKeyframeCount(extracted, created.keyframes)
         IN  [keyframes |->
                  Some(IF Len(filtered) > 5 /\ Len(normalized) >= 3
                       THEN smoothKeyframes(normalized, created.keyframes)
                       ELSE normalized),
              bezier |-> Some(calculateBezierParameters(filtered, created.totalDuration))]

\* C1: calculateAnimationData returns normally for every raw buffer: no call
\* ends in an exception.
C1_CalculateNeverThrows ==
    lastCall = "calculateAnimationData" => ~threw

\* C2: for every non-empty input the distance filter's output starts with the
\* first input sample and ends with the last input sample.
C2_FilterKeepsEnds ==
    (lastCall = "filterPoints" /\ Len(arg) > 0) =>
        /\ Len(ret) > 0
        /\ ret[1] = arg[1]
        /\ Last(ret) = Last(arg)

\* A list of which a sample was dropped and whose last sample was let in
\* closer than minDistance to the sample kept before it.
C2_Witness ==
    /\ lastCall = "filterPoints"
    /\ Len(arg) >= 3
    /\ Len(ret) >= 2
    /\ Len(ret) < Len(arg)
    /\ getDistanceSquared(Last(ret), ret[Len(ret) - 1]) < minDistance * minDistance

\* C3: for at least 2 samples with non-decreasing timestamps and positive
\* total duration the keyframe builder returns one keyframe per sample, in
\* order, with non-decreasing progress within [0,1], the first 0, the last 1.
C3_KeyframeProgress ==
    (/\ lastCall = "createKeyframes"
     /\ Len(arg) >= 2
     /\ NonDecreasingTimes(arg)
     /\ Last(arg).time - arg[1].time > 0) =>
        /\ Len(ret.keyframes) = Len(arg)
        /\ \A i \in 1..Len(arg) :
               /\ ret.keyframes[i].point = arg[i]
               /\ InUnit(ret.keyframes[i].progress)
        /\ \A i \in 1..(Len(arg) - 1) :
               FLeq(ret.keyframes[i].progress, ret.keyframes[i + 1].progress)
        /\ FEq(ret.keyframes[1].progress, Frac(0, 1))
        /\ FEq(Last(ret.keyframes).progress, Frac(1, 1))

\* Samples that do not start at time 0, two of them with one timestamp, and a
\* keyframe strictly inside the run.
C3_Witness ==
    /\ lastCall = "createKeyframes"
    /\ Len(arg) >= 3
    /\ NonDecreasingTimes(arg)
    /\ arg[1].time > 0
    /\ Last(arg).time - arg[1].time > 0
    /\ \E i \in 1..(Len(arg) - 1) : arg[i].time = arg[i + 1].time
    /\ \E i \in 1..Len(arg) :
           /\ FLess(Frac(0, 1), ret.keyframes[i].progress)
           /\ FLess(ret.keyframes[i].progress, Frac(1, 1))

\* C4: for keyframes built from samples with non-decreasing timestamps the
\* extractor's output is non-decreasing in progress and holds no two
\* keyframes with the same timestamp.
C4_ExtractOrderedDistinct ==
    (lastCall = "extractKeySpeedPoints" /\ NonDecreasingTimes(arg)) =>
        /\ \A i \in 1..(Len(ret) - 1) : FLeq(ret[i].progress, ret[i + 1].progress)
        /\ \A i, j \in 1..Len(ret) : i # j => ret[i].point.time # ret[j].point.time

\* Samples with a repeated timestamp and a speed change that was selected.
C4_Witness ==
    /\ lastCall = "extractKeySpeedPoints"
    /\ NonDecreasingTimes(arg)
    /\ \E i \in 1..(Len(arg) - 1) : arg[i].time = arg[i + 1].time
    /\ Len(ret) >= 3

\* C5: for every non-empty keyframe list (timestamps non-decreasing, equal
\* ones allowed) the extractor's output begins with the first and ends with
\* the last input keyframe.
C5_ExtractKeepsEnds ==
    (/\ lastCall = "extractKeySpeedPoints"
     /\ NonDecreasingTimes(arg)
     /\ Len(createKeyframes(arg).keyframes) > 0) =>
        /\ Len(ret) > 0
        /\ ret[1] = createKeyframes(arg).keyframes[1]
        /\ Last(ret) = Last(createKeyframes(arg).keyframes)

\* C6: every keyframe of the count normaliser's output is an element of the
\* list it sampled from (the original list in the too-sparse branch, the
\* extracted list otherwise), and the output keeps the source order.
C6_NormalizeSelectsFromSource ==
    lastCall = "normalizeKeyframeCount" =>
        IsSubseqOf(ret,
                   IF Len(arg.speedKeyframes) < 5 /\ Len(arg.originalKeyframes) > 10
                   THEN arg.originalKeyframes
                   ELSE arg.speedKeyframes)

\* The too-sparse branch taken with a non-empty extracted list and shared
\* timestamps in the original list.
C6_Witness ==
    /\ lastCall = "normalizeKeyframeCount"
    /\ Len(arg.speedKeyframes) \in 1..4
    /\ Len(arg.originalKeyframes) > 10
    /\ arg.originalKeyframes[1].point.time = arg.originalKeyframes[2].point.time
    /\ Len(ret) >= 3

\* C7: the Bezier estimator returns x1, y1, x2, y2 within [0,1], and exactly
\* (0.25, 0.1, 0.25, 1.0) for fewer than 2 samples or a non-positive duration.
C7_BezierInUnitSquare ==
    lastCall = "calculateBezierParameters" =>
        /\ InUnit(ret.value.x1) /\ InUnit(ret.value.y1)
        /\ InUnit(ret.value.x2) /\ InUnit(ret.value.y2)
        /\ (Len(arg) < 2 \/ ret.totalDuration <= 0) =>
               /\ FEq(ret.value.x1, Frac(25, 100))
               /\ FEq(ret.value.y1, Frac(1, 10))
               /\ FEq(ret.value.x2, Frac(25, 100))
               /\ FEq(ret.value.y2, Frac(1, 1))

\* A computed curve whose second control point lies beyond the given
\* duration and is clamped to 1.
C7_Witness ==
    /\ lastCall = "calculateBezierParameters"
    /\ Len(arg) >= 2
    /\ ret.totalDuration > 0
    /\ At(arg, (Len(arg) * 2) \div 3).time - arg[1].time > ret.totalDuration
    /\ FEq(ret.value.x2, Frac(1, 1))
    /\ ret.value # DefaultBezier

PathOrigin ==
    IF arg.firstPointOverride # Null THEN arg.firstPointOverride[1]
    ELSE arg.animationPoints[1]

\* a command's coordinates (hundredths) plus the origin are within half a
\* hundredth of the sample (thousandths)
Reproduces(command, sample) ==
    /\ PathOrigin.x + 10 * command.x - sample.x \in -5..5
    /\ PathOrigin.y + 10 * command.y - sample.y \in -5..5

\* C8 as stated: adding the origin to each command of the path reproduces,
\* within the 2-decimal rounding, every sample, the first one included.
C8_PathRoundTripAll ==
    (lastCall = "generateSVGPath" /\ Len(arg.animationPoints) >= 2) =>
        /\ Len(ret) = Len(arg.animationPoints)
        /\ \A i \in 1..Len(ret) : Reproduces(ret[i], arg.animationPoints[i])

\* C8 amended: the path has one command per sample, the first is M 0 0, and
\* adding the origin to every later command reproduces its sample within the
\* 2-decimal rounding.
C8_PathRoundTripAfterFirst ==
    (lastCall = "generateSVGPath" /\ Len(arg.animationPoints) >= 2) =>
        /\ Len(ret) = Len(arg.animationPoints)
        /\ ret[1] = [cmd |-> "M", x |-> 0, y |-> 0]
        /\ \A i \in 2..Len(ret) :
               /\ ret[i].cmd = "L"
               /\ Reproduces(ret[i], arg.animationPoints[i])

\* An overriding origin away from the first sample, and a coordinate that
\* toFixed(2) had to round.
C8_Witness ==
    /\ lastCall = "generateSVGPath"
    /\ Len(arg.animationPoints) >= 3
    /\ arg.firstPointOverride # Null
    /\ PathOrigin.x # arg.animationPoints[1].x
    /\ \E i \in 2..Len(ret) : PathOrigin.x + 10 * ret[i].x # arg.animationPoints[i].x

\* C9: after resetPoints the raw buffer is empty and the cached keyframes and
\* Bezier parameters are null.
C9_ResetClearsAll ==
    lastCall = "resetPoints" =>
        /\ points = <<>>
        /\ motionKeyframes = Null
        /\ bezierParams = Null

C9_Witness == lastCall = "resetPoints" /\ ~threw

\* C10: right after calculateAnimationData the cached keyframes and Bezier
\* parameters are the results for the raw buffer as it is (null below 3
\* points).
C10_CacheIsOfCurrentBuffer ==
    lastCall = "calculateAnimationData" =>
        /\ motionKeyframes = ExpectedAnimationData(points).keyframes
        /\ bezierParams = ExpectedAnimationData(points).bezier

\* C11: getFilteredPoints returns the distance filter's output for the raw
\* buffer as it is at the time of the call, and the call leaves the raw
\* buffer, the cached keyframes and the cached Bezier parameters as they were.
C11_FilteredPointsOfCurrentBuffer ==
    [][lastCall' = "getFilteredPoints" =>
           /\ ret' = filterPoints(points')
           /\ UNCHANGED <<points, motionKeyframes, bezierParams>>]_vars

\* A call on a buffer of which the filter drops a sample, made while results
\* are cached.
C11_Witness ==
    /\ lastCall = "getFilteredPoints"
    /\ motionKeyframes # Null
    /\ bezierParams # Null
    /\ Len(ret) >= 2
    /\ Len(ret) < Len(points)

\* C12: whenever generateDynamicCSS or playAnimation produces timing, the
\* path has at least 3 raw and 2 filtered points, the timing is taken from
\* the cached keyframe list if and only if that list has at least 3 entries,
\* and it is a cubic-bezier easing in every other case.
C12_TimingFollowsCachedKeyframes ==
    (lastCall \in {"generateDynamicCSS", "playAnimation"}
        /\ ret.timing \in {"keyframes", "bezier"}) =>
        /\ Len(points) >= 3
        /\ Len(filterPoints(points)) >= 2
        /\ IF motionKeyframes # Null /\ Len(motionKeyframes[1]) >= 3
           THEN /\ ret.timing = "keyframes"
                /\ ret.keyframes = motionKeyframes[1]
           ELSE /\ ret.timing = "bezier"
                /\ ret.easing # Null

\* CSS generated with a cubic-bezier easing while a keyframe list of fewer
\* than 3 entries is cached.
C12_Witness ==
    /\ lastCall = "generateDynamicCSS"
    /\ ret.timing = "bezier"
    /\ motionKeyframes # Null
    /\ Len(motionKeyframes[1]) = 2

\* The Bezier estimator applied to the filtered samples of a raw buffer.
BezierOf(buffer) ==
    calculateBezierParameters(filterPoints(buffer),
                              createKeyframes(filterPoints(buffer)).totalDuration)

\* C14 as stated: on a raw buffer of exactly 2 points calculateAnimationData
\* leaves the keyframes null and still produces a Bezier curve whose four
\* coordinates lie in [0, 1].
C14_TwoPointsStillBezier ==
    (lastCall = "calculateAnimationData" /\ Len(points) = 2) =>
        /\ motionKeyframes = Null
        /\ bezierParams # Null
        /\ InUnit(bezierParams[1].x1) /\ InUnit(bezierParams[1].y1)
        /\ InUnit(bezierParams[1].x2) /\ InUnit(bezierParams[1].y2)

\* C14: on a raw buffer of exactly 2 points calculateAnimationData returns
\* normally and leaves both the keyframes and the Bezier parameters null; the
\* Bezier estimator applied to the 2 points themselves returns a curve whose
\* four coordinates lie in [0, 1].
C14_TwoPointsBothNull ==
    (lastCall = "calculateAnimationData" /\ Len(points) = 2) =>
        /\ ~threw
        /\ motionKeyframes = Null
        /\ bezierParams = Null
        /\ InUnit(BezierOf(points).x1) /\ InUnit(BezierOf(points).y1)
        /\ InUnit(BezierOf(points).x2) /\ InUnit(BezierOf(points).y2)

\* The call on 2 points of which the filter keeps both.
C14_Witness ==
    /\ lastCall = "calculateAnimationData"
    /\ Len(points) = 2
    /\ Len(filterPoints(points)) = 2
    /\ BezierOf(points) # DefaultBezier

\* C13 as stated: of the raw samples (t, x, y) = (0, 0, 0), (100, 1, 1),
\* (200, 50, 50) the distance filter keeps all 3, and the keyframe builder
\* gives them progress 0, 1/2 and 1.
C13_NearStartKeepsAll ==
    (lastCall = "createKeyframes" /\ arg = NearStart(1, 1)) =>
        /\ ret.filtered = arg
        /\ Len(ret.keyframes) = 3
        /\ FEq(ret.keyframes[1].progress, Frac(0, 1))
        /\ FEq(ret.keyframes[2].progress, Frac(1, 2))
        /\ FEq(ret.keyframes[3].progress, Frac(1, 1))

\* C13: of the raw samples (t, x, y) = (0, 0, 0), (100, 1, 1), (200, 50, 50)
\* the distance filter keeps the first and the third (the second lies
\* sqrt(2) < 2 from the first), and the keyframe builder gives them progress
\* 0 and 1.
C13_NearStartDropsSecond ==
    (lastCall = "createKeyframes" /\ arg = NearStart(1, 1)) =>
        /\ ret.filtered = <<arg[1], arg[3]>>
        /\ Len(ret.keyframes) = 2
        /\ ret.keyframes[1].point = arg[1]
        /\ FEq(ret.keyframes[1].progress, Frac(0, 1))
        /\ ret.keyframes[2].point = arg[3]
        /\ FEq(ret.keyframes[2].progress, Frac(1, 1))

C13_Witness ==
    /\ lastCall = "createKeyframes"
    /\ arg = NearStart(1, 1)
    /\ Len(ret.filtered) = 2

\* C15: for 20 raw points at constant velocity (equal time steps, equal
\* spacing of at least minDistance) the extractor returns the first and the
\* last keyframe only, and the count normaliser takes its too-sparse branch
\* and returns at least 5 keyframes.
C15_ConstantVelocityExpanded ==
    (lastCall = "runStages"
        /\ \E dt \in RunTimeSteps, spacing \in RunSpacings :
               arg = ConstantVelocity(20, dt, spacing)) =>
        /\ ret.filtered = arg
        /\ ret.speedKeyframes = <<ret.keyframes[1], Last(ret.keyframes)>>
        /\ Len(ret.speedKeyframes) < 5 /\ Len(ret.keyframes) > 10
        /\ ret.normalized # ret.speedKeyframes
        /\ Len(ret.normalized) >= 5

\* The run of 20 samples 16 time units and 2 px apart, rebuilt from the
\* keyframe builder's list.
C15_Witness ==
    /\ lastCall = "runStages"
    /\ arg = ConstantVelocity(20, 16, 2)
    /\ Len(ret.speedKeyframes) = 2
    /\ Len(ret.normalized) = 10
    /\ IsSubseqOf(ret.normalized, ret.keyframes)

\* two samples less than 2 px apart
Within2(a, b) == (a.x - b.x) * (a.x - b.x) + (a.y - b.y) * (a.y - b.y) < 4

\* C16: for every raw sequence of at least 2 points that all lie within the
\* minimum distance of each other, the distance filter's output has exactly 2
\* elements: the first sample and the force-appended last sample.
C16_BurstKeepsTwo ==
    (lastCall = "filterPoints" /\ Len(arg) >= 2
        /\ \A i, j \in 1..Len(arg) : Within2(arg[i], arg[j])) =>
        ret = <<arg[1], Last(arg)>>

\* A burst of at least 3 samples that ends where it began.
C16_Witness ==
    /\ lastCall = "filterPoints"
    /\ Len(arg) >= 3
    /\ \A i, j \in 1..Len(arg) : Within2(arg[i], arg[j])
    /\ arg[2].x # arg[1].x
    /\ Last(arg).x = arg[1].x /\ Last(arg).y = arg[1].y
    /\ Len(ret) = 2

\* the output element that was the last of the result when input sample j
\* was examined
KeptBefore(out, j) ==
    out[CHOOSE k \in 1..Len(out) :
            /\ out[k].id < j
            /\ \A m \in 1..Len(out) : out[m].id < j => m <= k]

\* C17: the distance filter's output is an order-preserving selection of the
\* input; every kept sample other than the first and a force-appended final
\* one lies at distance >= 2 from the sample kept just before it; every
\* dropped sample lies at distance < 2 from the sample that was last kept
\* when it was examined; empty input gives empty output.
C17_FilterRule ==
    lastCall = "filterPoints" =>
        /\ arg = <<>> => ret = <<>>
        /\ IsSubseqOf(ret, arg)
        /\ \A k \in 2..Len(ret) :
               \/ ~Within2(ret[k], ret[k - 1])
               \/ k = Len(ret) /\ ret[k] = Last(arg)
        /\ \A j \in 2..Len(arg) :
               (\A k \in 1..Len(ret) : ret[k] # arg[j]) =>
                   Within2(arg[j], KeptBefore(ret, j))

\* A list with a dropped sample, a sample kept for its distance and a last
\* sample let in although it lies close to the one kept before it.
C17_Witness ==
    /\ lastCall = "filterPoints"
    /\ Len(arg) = 4
    /\ Len(ret) = 3
    /\ ret[2] = arg[3]
    /\ ~Within2(ret[2], ret[1])
    /\ Within2(ret[3], ret[2])

\* lastSpeed as it is when speed record i (i >= 1) is compared: the first
\* record's speed, replaced by the speed of each earlier record that changed
\* by more than the threshold.
RECURSIVE RunningLastSpeed(_, _)
RunningLastSpeed(speeds, i) ==
    IF i = 1 THEN At(speeds, 0).speed
    ELSE IF SpeedChangeExceeds(At(speeds, i - 1).speed, RunningLastSpeed(speeds, i - 1))
         THEN At(speeds, i - 1).speed
         ELSE RunningLastSpeed(speeds, i - 1)

\* the keyframes appended for speed records 1..i: for each record that
\* changed by more than the threshold, the keyframe of the record before it
\* and its own
RECURSIVE ChangePairs(_, _, _)
ChangePairs(keyframes, speeds, i) ==
    IF i < 1 THEN <<>>
    ELSE ChangePairs(keyframes, speeds, i - 1)
             \o (IF SpeedChangeExceeds(At(speeds, i).speed, RunningLastSpeed(speeds, i))
                 THEN <<At(keyframes, At(speeds, i - 1).index),
                        At(keyframes, At(speeds, i).index)>>
                 ELSE <<>>)

\* C18: the extractor compares each speed record after the first with a
\* running lastSpeed (initially the first record's speed); exactly when the
\* relative change exceeds the threshold it appends the keyframe before the
\* change (that of the preceding speed record) and the keyframe at the change
\* and sets lastSpeed to that record's speed; otherwise lastSpeed stays.
C18_ExtractorFollowsLastSpeed ==
    (lastCall = "extractLoop" /\ Len(arg) >= 2) =>
        LET keyframes == createKeyframes(arg).keyframes
            speeds == calculateSpeeds(keyframes)
        IN  ret = <<keyframes[1]>> \o ChangePairs(keyframes, speeds, Len(speeds) - 1)

\* Three speed records: the second changes by more than the threshold, the
\* third equals the second and so appends nothing, although it differs from
\* the first.
C18_Witness ==
    /\ lastCall = "extractLoop"
    /\ LET speeds == calculateSpeeds(createKeyframes(arg).keyframes)
       IN  /\ Len(speeds) = 3
           /\ SpeedChangeExceeds(speeds[2].speed, speeds[1].speed)
           /\ ~SpeedChangeExceeds(speeds[3].speed, speeds[2].speed)
           /\ SpeedChangeExceeds(speeds[3].speed, speeds[1].speed)
    /\ Len(ret) = 3

\* the elements of list at the (0-based) multiples of step below limit,
\* followed by the last element of list
StrideBelow(list, step, limit) ==
    PickFrom(list, {i + 1 : i \in {m \in 0..(Len(list) - 1) : m % step = 0 /\ m < limit}}, 1)
        \o <<Last(list)>>

\* s without the elements whose timestamp occurs earlier in s
FirstOfEachTime(s) ==
    PickFrom(s, {i \in 1..Len(s) :
                    \A j \in 1..(i - 1) : s[j].point.time # s[i].point.time}, 1)

DistinctTimes(s) ==
    \A i, j \in 1..Len(s) : i # j => s[i].point.time # s[j].point.time

\* C19 as stated, for lists of pairwise distinct timestamps: with fewer than
\* 5 extracted and more than 10 original keyframes the result is the original
\* keyframes at every multiple of s = floor(originalCount / 8) below the last
\* index, followed by the last one; otherwise, with more than 20 extracted
\* keyframes, the same sampling of the extracted list with
\* s = floor(extractedCount / 20); otherwise the extracted list unchanged.
C19_StrideBelowLastIndex ==
    (lastCall = "normalizeKeyframeCount"
        /\ DistinctTimes(arg.speedKeyframes) /\ DistinctTimes(arg.originalKeyframes)) =>
        ret = IF Len(arg.speedKeyframes) < 5 /\ Len(arg.originalKeyframes) > 10
              THEN StrideBelow(arg.originalKeyframes, Len(arg.originalKeyframes) \div 8,
                               Len(arg.originalKeyframes) - 1)
              ELSE IF Len(arg.speedKeyframes) > 20
              THEN StrideBelow(arg.speedKeyframes, Len(arg.speedKeyframes) \div 20,
                               Len(arg.speedKeyframes) - 1)
              ELSE arg.speedKeyframes

\* C19: the first matching rule applies.  With fewer than 5 extracted and
\* more than 10 original keyframes the result is the original keyframes at
\* every multiple of s = floor(originalCount / 8) below originalCount - s,
\* followed by the last one, without the keyframes whose timestamp occurs
\* earlier in that selection; otherwise, with more than 20 extracted
\* keyframes, the same for the extracted list with
\* s = floor(extractedCount / 20); otherwise the extracted list unchanged.
C19_StrideBelowCountMinusStep ==
    lastCall = "normalizeKeyframeCount" =>
        ret = IF Len(arg.speedKeyframes) < 5 /\ Len(arg.originalKeyframes) > 10
              THEN FirstOfEachTime(
                       StrideBelow(arg.originalKeyframes, Len(arg.originalKeyframes) \div 8,
                                   Len(arg.originalKeyframes)
                                       - Len(arg.originalKeyframes) \div 8))
              ELSE IF Len(arg.speedKeyframes) > 20
              THEN FirstOfEachTime(
                       StrideBelow(arg.speedKeyframes, Len(arg.speedKeyframes) \div 20,
                                   Len(arg.speedKeyframes)
                                       - Len(arg.speedKeyframes) \div 20))
              ELSE arg.speedKeyframes

\* 40 extracted keyframes of distinct timestamps: the stride is 2, and the
\* keyframe at index 38, a multiple of 2 below the last index, is left out.
C19_Witness ==
    /\ lastCall = "normalizeKeyframeCount"
    /\ Len(arg.speedKeyframes) = 40
    /\ DistinctTimes(arg.speedKeyframes)
    /\ Len(ret) = 20
    /\ ret[19] = arg.speedKeyframes[37]
    /\ ret[20] = arg.speedKeyframes[40]

\* C20: in both rebuild branches of the count normaliser, shared timestamps
\* included, the output's first element is the source list's first keyframe
\* and its last element is the source list's last keyframe.
C20_RebuildKeepsEnds ==
    lastCall = "normalizeKeyframeCount" =>
        /\ (Len(arg.speedKeyframes) < 5 /\ Len(arg.originalKeyframes) > 10) =>
               /\ ret[1] = arg.originalKeyframes[1]
               /\ Last(ret) = Last(arg.originalKeyframes)
        /\ (~(Len(arg.speedKeyframes) < 5 /\ Len(arg.originalKeyframes) > 10)
               /\ Len(arg.speedKeyframes) > 20) =>
               /\ ret[1] = arg.speedKeyframes[1]
               /\ Last(ret) = Last(arg.speedKeyframes)

\* C21: the keyframes published by calculateAnimationData are the smoother's
\* output over the normalised list and the keyframe builder's list exactly
\* when more than 5 filtered samples are left and the normalised list has at
\* least 3 keyframes, and the count normaliser's output in every other case.
C21_PublishedKeyframes ==
    (lastCall = "calculateAnimationData" /\ Len(points) >= 3) =>
        LET filtered == filterPoints(points)
            original == createKeyframes(filtered).keyframes
            normalized ==
                normalizeKeyframeCount(
                    extractKeySpeedPoints(original, calculateSpeeds(original)), original)
        IN  /\ motionKeyframes # Null
            /\ motionKeyframes[1] = IF Len(filtered) > 5 /\ Len(normalized) >= 3
                                     THEN smoothKeyframes(normalized, original)
                                     ELSE normalized

\* |a - b| for two progress values
Gap(a, b) == FAbs(FSub(a, b))

\* the position in original of the keyframe whose progress is closest to
\* target, the first of them when several are equally close
ClosestPosition(original, target) ==
    CHOOSE k \in 1..Len(original) :
        /\ \A j \in 1..Len(original) :
               FLeq(Gap(original[k].progress, target), Gap(original[j].progress, target))
        /\ \A j \in 1..(k - 1) :
               FLess(Gap(original[k].progress, target), Gap(original[j].progress, target))

\* what the smoother puts between the normalised keyframes i and i + 1
Inserted(normalized, original, i) ==
    LET midpoint == FHalf(FAdd(normalized[i].progress, normalized[i + 1].progress))
    IN  IF /\ FLess(Frac(1, 10), FSub(normalized[i + 1].progress, normalized[i].progress))
           /\ original[ClosestPosition(original, midpoint)].point.time
                  # normalized[i].point.time
        THEN <<original[ClosestPosition(original, midpoint)]>>
        ELSE <<>>

RECURSIVE SmoothedUpTo(_, _, _)
SmoothedUpTo(normalized, original, i) ==
    IF i = 0 THEN <<>>
    ELSE SmoothedUpTo(normalized, original, i - 1)
             \o <<normalized[i]>> \o Inserted(normalized, original, i)

\* C22: smoothKeyframes returns every normalised keyframe in order and,
\* between an adjacent pair, inserts one keyframe if and only if the pair's
\* progress gap exceeds 0.1 and the original keyframe closest in progress to
\* the gap's midpoint (the first in scan order on ties) has a timestamp
\* different from the keyframe at the tail of the result; the inserted
\* keyframe is that closest original keyframe.
C22_SmootherInsertsClosest ==
    lastCall = "smoothKeyframes" =>
        ret = IF Len(arg.keyframes) < 2 THEN arg.keyframes
              ELSE SmoothedUpTo(arg.keyframes, arg.originalKeyframes, Len(arg.keyframes) - 1)
                       \o <<Last(arg.keyframes)>>

\* A selection with a pair that gets a keyframe inserted and a pair whose
\* closest original keyframe has the timestamp of the keyframe just pushed.
C22_Witness ==
    /\ lastCall = "smoothKeyframes"
    /\ Len(arg.keyframes) >= 3
    /\ \E i \in 1..(Len(arg.keyframes) - 1) :
           Inserted(arg.keyframes, arg.originalKeyframes, i) # <<>>
    /\ \E i \in 1..(Len(arg.keyframes) - 1) :
           /\ FLess(Frac(1, 10),
                    FSub(arg.keyframes[i + 1].progress, arg.keyframes[i].progress))
           /\ Inserted(arg.keyframes, arg.originalKeyframes, i) = <<>>
    /\ Len(ret) = Len(arg.keyframes) + 1

\* C23: the keyframe builder returns an empty list and totalDuration 0 for
\* fewer than 2 samples; for at least 2 samples whose first and last
\* timestamps are equal it returns one keyframe per sample, each with
\* progress 0, and divides by nothing that is zero.
C23_BuilderDegenerate ==
    lastCall = "createKeyframes" =>
        /\ Len(arg) < 2 => ret = [keyframes |-> <<>>, totalDuration |-> 0]
        /\ (Len(arg) >= 2 /\ arg[1].time = Last(arg).time) =>
               /\ ret.totalDuration = 0
               /\ Len(ret.keyframes) = Len(arg)
               /\ \A k \in 1..Len(arg) :
                      /\ ret.keyframes[k].point = arg[k]
                      /\ ret.keyframes[k].progress.d # 0
                      /\ ret.keyframes[k].progress.n = 0

\* Samples that begin and end at one timestamp but leave it in between.
C23_Witness ==
    /\ lastCall = "createKeyframes"
    /\ Len(arg) >= 3
    /\ arg[1].time = Last(arg).time
    /\ arg[2].time # arg[1].time
    /\ Len(ret.keyframes) = Len(arg)

\* the (0-based) indices of the keyframes that end a pair of positive time
\* delta
PositivePairs(keyframes) ==
    {i \in 1..(Len(keyframes) - 1) :
        At(keyframes, i).point.time - At(keyframes, i - 1).point.time > 0}

\* C24: the speed profiler emits exactly one record for each consecutive
\* keyframe pair of positive time delta and none for the others; the records
\* are in keyframe order, each carries the index and the progress of the
\* pair's later keyframe, and each speed is non-negative.
C24_OneRecordPerPositivePair ==
    lastCall = "calculateSpeeds" =>
        LET keyframes == createKeyframes(arg).keyframes
        IN  /\ Len(ret) = Cardinality(PositivePairs(keyframes))
            /\ {ret[r].index : r \in 1..Len(ret)} = PositivePairs(keyframes)
            /\ \A r \in 1..(Len(ret) - 1) : ret[r].index < ret[r + 1].index
            /\ \A r \in 1..Len(ret) :
                   /\ ret[r].progress = At(keyframes, ret[r].index).progress
                   /\ ret[r].speed.d2 >= 0
                   /\ ret[r].speed.dt > 0
                   /\ ret[r].speed.d2 =
                          getDistanceSquared(At(keyframes, ret[r].index).point,
                                             At(keyframes, ret[r].index - 1).point)
                   /\ ret[r].speed.dt =
                          At(keyframes, ret[r].index).point.time
                              - At(keyframes, ret[r].index - 1).point.time

\* Keyframes with a pair of positive, one of zero and one of negative time
\* delta.
C24_Witness ==
    /\ lastCall = "calculateSpeeds"
    /\ Len(arg) = 4
    /\ \E i, j \in 1..3 : /\ arg[i + 1].time = arg[i].time
                          /\ arg[j + 1].time < arg[j].time
    /\ Len(ret) = 1

\* q brought into [0, 1]
IntoUnit(q) ==
    IF FLess(q, Frac(0, 1)) THEN Frac(0, 1)
    ELSE IF FLess(Frac(1, 1), q) THEN Frac(1, 1) ELSE q

\* C25: for n >= 2 samples and positive total duration the Bezier estimator
\* uses i1 = floor(n / 3) and i2 = floor(2n / 3), both valid indices, and
\* returns x1, x2 = (time[i] - time[0]) / totalDuration at i1, i2 and
\* y1, y2 = i1 / (n - 1), i2 / (n - 1), each clamped to [0, 1].
C25_BezierFromThirds ==
    (lastCall = "calculateBezierParameters" /\ Len(arg) >= 2 /\ ret.totalDuration > 0) =>
        LET n == Len(arg)
            i1 == n \div 3
            i2 == (2 * n) \div 3
        IN  /\ i1 \in 0..(n - 1)
            /\ i2 \in 0..(n - 1)
            /\ FEq(ret.value.x1,
                   IntoUnit(Frac(arg[i1 + 1].time - arg[1].time, ret.totalDuration)))
            /\ FEq(ret.value.x2,
                   IntoUnit(Frac(arg[i2 + 1].time - arg[1].time, ret.totalDuration)))
            /\ FEq(ret.value.y1, IntoUnit(Frac(i1, n - 1)))
            /\ FEq(ret.value.y2, IntoUnit(Frac(i2, n - 1)))

\* Four samples: the control points come from the second and the third, and
\* none of the four coordinates is clamped.
C25_Witness ==
    /\ lastCall = "calculateBezierParameters"
    /\ Len(arg) = 4
    /\ ret.totalDuration = 2
    /\ arg[2].time - arg[1].time = 1
    /\ arg[3].time - arg[1].time = 2
    /\ FEq(ret.value.x1, Frac(1, 2))
    /\ FEq(ret.value.y1, Frac(1, 3))
    /\ FEq(ret.value.y2, Frac(2, 3))

\* C26: for every raw buffer of at least 2 samples the distance filter's
\* output has at least 2 elements, so with 3 or more raw points neither
\* calculateAnimationData nor CSS generation (nor playback) takes its
\* "fewer than 2 filtered points" branch.
C26_FilteredNeverBelowTwo ==
    /\ Len(points) >= 2 => Len(filterPoints(points)) >= 2
    /\ lastCall \in {"generateDynamicCSS", "playAnimation"} =>
           ret.timing # "tooFewFiltered"
    /\ (lastCall = "calculateAnimationData" /\ Len(points) >= 3 /\ ~threw) =>
           motionKeyframes # Null /\ bezierParams # Null

\* CSS generated for 3 raw points of which the filter's loop keeps the first
\* only.
C26_Witness ==
    /\ lastCall = "generateDynamicCSS"
    /\ Len(points) = 3
    /\ Len(filterPoints(points)) = 2
    /\ \A i \in 1..3 : Within2(points[i], points[1])
    /\ ret.timing = "bezier"

\* C27: the distance filter is idempotent: filtering its own output returns
\* that output again, also when the last sample was let in closer than the
\* minimum distance.
C27_FilterIdempotent ==
    lastCall = "filterPointsTwice" => ret.twice = ret.once

\* An output of 3 samples, of which the last was let in close to the one
\* before it, filtered again.
C27_Witness ==
    /\ lastCall = "filterPointsTwice"
    /\ Len(arg) = 4
    /\ Len(ret.once) = 3
    /\ Within2(ret.once[3], ret.once[2])
    /\ Len(ret.twice) = 3

\* C28: for source lists of pairwise distinct timestamps the count
\* normaliser's output has 8 to 15 keyframes in the too-sparse branch and 20
\* to 39 in the too-dense branch, and an extracted list of 21 to 39
\* keyframes is returned with all of its keyframes.
C28_RebuildLengths ==
    (lastCall = "normalizeKeyframeCount"
        /\ DistinctTimes(arg.speedKeyframes) /\ DistinctTimes(arg.originalKeyframes)) =>
        IF Len(arg.speedKeyframes) < 5 /\ Len(arg.originalKeyframes) > 10
        THEN Len(ret) \in 8..15
        ELSE /\ Len(arg.speedKeyframes) > 20 => Len(ret) \in 20..39
             /\ Len(arg.speedKeyframes) \in 21..39 => ret = arg.speedKeyframes

\* The shortest rebuilt outputs: 8 keyframes out of 16 original ones.
C28_Witness ==
    /\ lastCall = "normalizeKeyframeCount"
    /\ DistinctTimes(arg.originalKeyframes)
    /\ Len(arg.speedKeyframes) < 5
    /\ Len(arg.originalKeyframes) = 16
    /\ Len(ret) = 8


(***************************************************************************)
(* script-dual-mode.js: the page's handlers and its deferred preview start *)
(***************************************************************************)

\* resetAll() of script-dual-mode.js, lines 959-1007: points = [] and
\* bezierParams = null.  It calls neither clearTimeout nor
\* cancelAnimationFrame nor animation.cancel(), and leaves
\* window.motionKeyframes and isDragging alone; the pending callbacks stay
\* queued, and the model notes on each that a reset ran while it waited.
MarkReset(callbacks) ==
    [i \in 1..Len(callbacks) |-> [callbacks[i] EXCEPT !.reset = TRUE]]

AfterResetAll(p) ==
    [p EXCEPT !.pointCount = 0,
              !.bezierParams = FALSE,
              !.timers = MarkReset(p.timers),
              !.frames = MarkReset(p.frames)]

\* animation.cancel() on the animation animatedElement.animation refers to,
\* followed by animatedElement.animation = null (lines 739-742, 848-851).
CancelCurrent(p) ==
    IF p.animation = 0 THEN p
    ELSE [p EXCEPT !.animations[p.animation].state = "cancelled",
                   !.animation = 0]

\* One callback of requestAnimationFrame run on page p: the callback of
\* lines 816-838 starts an animation and stores it in
\* animatedElement.animation without looking at the previous value; the
\* callback of resetElementStyles (lines 874-876) only forces a reflow.
RunFrame(p, f) ==
    IF f.kind = "start"
    THEN [p EXCEPT !.animations =
                       Append(p.animations,
                              [preview |-> f.preview, state |-> "running",
                               reset |-> f.reset]),
                   !.animation = Len(p.animations) + 1]
    ELSE p

RECURSIVE RunFrames(_, _)
RunFrames(p, fs) ==
    IF fs = <<>> THEN p ELSE RunFrames(RunFrame(p, Head(fs)), Tail(fs))

PageUnchanged ==
    UNCHANGED <<points, bezierParams, motionKeyframes, threw, arg, ret>>

\* modeToggle 'change' listener, lines 99-115.
modeToggleChange ==
    /\ page' = AfterResetAll([page EXCEPT !.isPathMode = ~page.isPathMode])
    /\ lastCall' = "modeToggleChange"
    /\ PageUnchanged

\* canvas 'mousedown' listener, lines 170-197.
canvasMouseDown ==
    /\ page.isPathMode
    /\ ~page.isDragging
    /\ page' = [page EXCEPT !.pointCount = 1, !.isDragging = TRUE]
    /\ lastCall' = "canvasMouseDown"
    /\ PageUnchanged

\* animatedElement 'mousedown' listener, lines 117-165.
elementMouseDown ==
    /\ page' = IF page.isPathMode
               THEN [page EXCEPT !.pointCount = 1, !.isDragging = TRUE]
               ELSE [page EXCEPT !.isDragging = TRUE]
    /\ lastCall' = "elementMouseDown"
    /\ PageUnchanged

\* document 'mousemove' listener, lines 200-229.
documentMouseMove ==
    /\ page.isDragging
    /\ page.isPathMode => page.pointCount < MaxStroke
    /\ page' = IF page.isPathMode
               THEN [page EXCEPT !.pointCount = @ + 1]
               ELSE page
    /\ lastCall' = "documentMouseMove"
    /\ PageUnchanged

\* document 'mouseup' listener, lines 231-252, with calculateBezier(),
\* lines 273-295, which assigns window.motionKeyframes and bezierParams.
documentMouseUp ==
    /\ page.isDragging
    /\ page' = IF page.isPathMode /\ page.pointCount >= 3
               THEN [page EXCEPT !.isDragging = FALSE,
                                 !.bezierParams = TRUE,
                                 !.motionKeyframes = TRUE]
               ELSE [page EXCEPT !.isDragging = FALSE]
    /\ lastCall' = "documentMouseUp"
    /\ PageUnchanged

\* playAnimation() of script-dual-mode.js, lines 702-840, the listener of the
\* preview button: past the guard of line 703 it cancels the animation that
\* animatedElement.animation refers to, calls resetElementStyles() (which
\* requests a frame of its own) and hands the start to setTimeout(..., 150).
playAnimationDualMode ==
    /\ page.isPathMode
    /\ page.pointCount >= 3
    /\ page.previews < MaxPreviews
    /\ LET cancelled == CancelCurrent(page)
           request == page.previews + 1
       IN  page' = [cancelled EXCEPT
                       !.previews = request,
                       !.frames = Append(cancelled.frames,
                                         [kind |-> "reflow", preview |-> request,
                                          reset |-> FALSE]),
                       !.timers = Append(cancelled.timers,
                                         [kind |-> "start", preview |-> request,
                                          reset |-> FALSE])]
    /\ lastCall' = "playAnimationDualMode"
    /\ PageUnchanged

\* The callback given to setTimeout, lines 795-839, runs: timers of equal
\* delay run in the order they were set.  It requests the frame that starts
\* the animation.
timeoutCallback ==
    /\ page.timers /= <<>>
    /\ page' = [page EXCEPT !.timers = Tail(page.timers),
                            !.frames = Append(page.frames, Head(page.timers))]
    /\ lastCall' = "timeoutCallback"
    /\ PageUnchanged

\* The browser renders a frame: every callback requested so far runs, in
\* the order of the requests.
animationFrameCallbacks ==
    /\ page.frames /= <<>>
    /\ page' = [RunFrames(page, page.frames) EXCEPT !.frames = <<>>]
    /\ lastCall' = "animationFrameCallbacks"
    /\ PageUnchanged

\* resetAll() as the listener of the reset button, line 1013.
resetAll ==
    /\ page' = AfterResetAll(page)
    /\ lastCall' = "resetAll"
    /\ PageUnchanged

InitPreview ==
    /\ page = IdlePage
    /\ points = <<>>
    /\ bezierParams = Null
    /\ motionKeyframes = Null
    /\ threw = FALSE
    /\ lastCall = "init"
    /\ arg = <<>>
    /\ ret = <<>>

NextPreview ==
    \/ modeToggleChange
    \/ canvasMouseDown
    \/ elementMouseDown
    \/ documentMouseMove
    \/ documentMouseUp
    \/ playAnimationDualMode
    \/ timeoutCallback
    \/ animationFrameCallbacks
    \/ resetAll

SpecPreview == InitPreview /\ [][NextPreview]_vars

\* C29: at any time at most one preview animation of the animated element is
\* un-cancelled: whenever a preview starts an animation, every animation
\* started by an earlier preview request has been cancelled.
C29_AtMostOneUncancelled ==
    \A i, j \in 1..Len(page.animations) :
        (/\ page.animations[i].state = "running"
         /\ page.animations[j].state = "running") => i = j

\* C30: once a reset has been requested, no animation is started on the
\* animated element from a preview that was requested before the reset: no
\* animation comes from a start that was pending when resetAll ran.
C30_NoStartAfterReset ==
    \A i \in 1..Len(page.animations) : ~page.animations[i].reset

====
